---- MODULE Spec2Model ----
(***************************************************************************)
(* Model of slurmfixer.py: the job reconciler (find_bad, fix_bad), the     *)
(* orphan detector (find_orphans) and the composite node name splitter     *)
(* (name_string_to_list).                                                  *)
(*                                                                         *)
(* Text is modelled as a sequence of one-character strings, so that        *)
(* splitting, stripping, replacing and int() are computed the way the      *)
(* Python code computes them.                                              *)
(***************************************************************************)
EXTENDS Integers, Sequences, FiniteSets, TLC

VARIABLES
    \* ---- the accounting store and the scheduler (the program's environment)
    store,          \* rows of <cluster>_job_table, a sequence of records
    live,           \* job ids the scheduler currently knows (what squeue lists)
    \* ---- one run of find_bad / fix_bad
    cmd,            \* sub command chosen in main()
    pc,             \* position of the program
    squeue_text,    \* the outcome of check_output(QUEUE_LIST_COMMAND)
    running_jobs,   \* find_bad_jobs: running_jobs
    bad_jobs,       \* find_bad_jobs: bad_jobs (the value it returns)
    next_job,       \* index of the next bad job to print
    out,            \* lines written to stdout
    store_before,   \* the store when the current run started
    plan_store,     \* <<[before, rerun]>> once the printed statements were executed:
                    \* the store they were executed on, and whether the program
                    \* was run again since
    \* ---- the cluster as find_orphans sees it (the program's environment)
    live_pairs,     \* the (user, node) pairs squeue lists at this moment
    \* ---- one run of find_orphans
    composite_names,            \* get_node_names: composite_names_str
    tokens,                     \* get_node_names: the result of name_string_to_list
    next_token,                 \* index of the next compressed name to expand
    node_names,                 \* get_node_names: node_names
    pairs_text,                 \* the outcome of check_output(squeue_cmd)
    running_user_node_names,    \* find_orphans: running_user_node_names
    next_node,                  \* index of the next node to check
    visits,                     \* the nodes checked so far, each with the outcome of its ps
    err                         \* lines written to stderr

jobVars == <<store, live, squeue_text, running_jobs, bad_jobs, next_job, store_before,
             plan_store>>

orphanVars == <<live_pairs, composite_names, tokens, next_token, node_names,
                pairs_text, running_user_node_names, next_node, visits, err>>

vars == <<cmd, pc, out, jobVars, orphanVars>>

----------------------------------------------------------------------------
\* Bounds of the model
MaxRows == 2        \* rows in the job table
MaxJobId == 2       \* job ids are 1..MaxJobId
MaxLen == 4         \* characters in a composite node name string
MaxNodes == 2       \* node names get_node_names returns

\* Program constants
UNFINISHED_STATE_LIMIT == 3     \* "state < 3"
FIXED_STATE == 5                \* "set state = 5"
FIXED_DURATION == 1             \* "time_end = time_start + 1"
CLUSTER_NAME == "hardac"

\* the outcome of a call: a value, or the exception it raised
Returned(v) == [raised |-> "", value |-> v]
Raised(e) == [raised |-> e, value |-> <<>>]
CalledProcessError == "CalledProcessError"  \* check_output: the command failed
ValueError == "ValueError"                  \* int(): the text is no integer
IndexError == "IndexError"                  \* parts[k]: the list is too short

----------------------------------------------------------------------------
\* Text helpers

QUOTE == "\""
NEWLINE == "\n"
PIPE == "|"
SPACE == " "
COMMA == ","
OPEN == "["
CLOSE == "]"

Digits == <<"0", "1", "2", "3", "4", "5", "6", "7", "8", "9">>

IsDigit(c) == \E d \in 1..10 : Digits[d] = c

DigitValue(c) == (CHOOSE d \in 1..10 : Digits[d] = c) - 1

\* str(n) for 0 <= n
RECURSIVE str(_)
str(n) == IF n < 10 THEN <<Digits[n + 1]>> ELSE str(n \div 10) \o <<Digits[(n % 10) + 1]>>

\* s.split(sep) for a one-character separator: always at least one piece
RECURSIVE split(_, _)
split(s, sep) ==
    IF \A i \in 1..Len(s) : s[i] /= sep
    THEN <<s>>
    ELSE LET k == CHOOSE i \in 1..Len(s) : s[i] = sep /\ \A j \in 1..(i - 1) : s[j] /= sep
         IN <<SubSeq(s, 1, k - 1)>> \o split(SubSeq(s, k + 1, Len(s)), sep)

\* s.replace(ch, '')
replace(s, ch) == SelectSeq(s, LAMBDA c : c /= ch)

\* s.strip(): leading and trailing white space removed
IsSpace(c) == c \in {SPACE, NEWLINE}

strip(s) ==
    LET inked == {i \in DOMAIN s : ~IsSpace(s[i])}
    IN IF inked = {} THEN <<>>
       ELSE SubSeq(s, CHOOSE i \in inked : \A j \in inked : i <= j,
                      CHOOSE i \in inked : \A j \in inked : i >= j)

\* int(s): white space around the text is ignored; a run of decimal digits gives its
\* value, any other text of the characters used here raises ValueError
RECURSIVE DecimalValue(_)
DecimalValue(s) ==
    IF s = <<>> THEN 0
    ELSE 10 * DecimalValue(SubSeq(s, 1, Len(s) - 1)) + DigitValue(s[Len(s)])

int(s) ==
    IF strip(s) /= <<>> /\ \A i \in 1..Len(strip(s)) : IsDigit(strip(s)[i])
    THEN Returned(DecimalValue(strip(s)))
    ELSE Raised(ValueError)

\* the elements of a sequence
Range(s) == {s[i] : i \in 1..Len(s)}

\* all orderings of a finite set
Orderings(S) ==
    {p \in [1..Cardinality(S) -> S] : \A i, j \in 1..Cardinality(S) : i /= j => p[i] /= p[j]}

RECURSIVE Concat(_)
Concat(ss) == IF ss = <<>> THEN <<>> ELSE Head(ss) \o Concat(Tail(ss))

----------------------------------------------------------------------------
\* The accounting store

JobIds == 1..MaxJobId
States == {UNFINISHED_STATE_LIMIT - 1, UNFINISHED_STATE_LIMIT}
StartTimes == {0, 1}
EndTime == FIXED_DURATION + 3       \* the time_end the scheduler writes when a job ends
EndTimes == {0, EndTime}

Rows == [id_job : JobIds, state : States, time_start : StartTimes, time_end : EndTimes]

\* The table is a bag of rows; it is kept as a sequence in one canonical order,
\* the index standing for the row's identity.
RowCode(r) == ((r.id_job * 10 + r.state) * 10 + r.time_start) * 10 + r.time_end

Stores ==
    UNION {{s \in [1..n -> Rows] : \A i \in 1..(n - 1) : RowCode(s[i]) <= RowCode(s[i + 1])}
           : n \in 0..MaxRows}

\* faulty variant: the where clause with "and" for "or"
IsUnfinishedAnd(r) == r.state < UNFINISHED_STATE_LIMIT /\ r.time_end = 0

\* where clause of find_unfinished_jobs
IsUnfinished(r) == r.state < UNFINISHED_STATE_LIMIT \/ r.time_end = 0

\* "select * from hardac_job_table where state < 3 or time_end = 0 order by time_start":
\* every result the database may give (rows with equal time_start come in any order)
find_unfinished_jobs(db) ==
    LET hits == {i \in DOMAIN db : IsUnfinished(db[i])}
    IN {[k \in 1..Cardinality(hits) |-> db[p[k]]] :
          p \in {q \in Orderings(hits) :
                   \A a, b \in 1..Cardinality(hits) :
                      a < b => db[q[a]].time_start <= db[q[b]].time_start}}

\* squeue -h -o '"%A"': one quoted job id per line
QueueLine(id) == <<QUOTE>> \o str(id) \o <<QUOTE, NEWLINE>>

\* what check_output(QUEUE_LIST_COMMAND) may give while the scheduler knows the jobs L:
\* the listing by ascending or by descending id, a listing with a line that is no
\* job id before or after it, or a failure
GarbageLines == {<<QUOTE, QUOTE, NEWLINE>>, <<QUOTE, "1", "x", QUOTE, NEWLINE>>}

QueueListings(L) ==
    {Concat([k \in 1..Cardinality(L) |-> QueueLine(p[k])]) :
        p \in {q \in Orderings(L) :
                 \/ \A a, b \in DOMAIN q : a < b => q[a] < q[b]
                 \/ \A a, b \in DOMAIN q : a < b => q[a] > q[b]}}

QueueOutputs(L) ==
    {Returned(t) : t \in QueueListings(L)}
    \cup {Returned(t \o g) : t \in QueueListings(L), g \in GarbageLines}
    \cup {Returned(g \o t) : t \in QueueListings(L), g \in GarbageLines}
    \cup {Raised(CalledProcessError)}

\* find_running_jobs applied to the text of the listing
RECURSIVE ParseLines(_)
ParseLines(lines) ==
    IF lines = <<>> THEN Returned(<<>>)
    ELSE IF Head(lines) = <<>> THEN ParseLines(Tail(lines))
    ELSE LET n == int(replace(Head(lines), QUOTE))
             rest == ParseLines(Tail(lines))
         IN IF n.raised /= "" THEN n
            ELSE IF rest.raised /= "" THEN rest
            ELSE Returned(<<n.value>> \o rest.value)

\* faulty variant: find_running_jobs that skips the lines int() rejects and takes a failed
\* listing for an empty one
RECURSIVE ParseLinesLenient(_)
ParseLinesLenient(lines) ==
    IF lines = <<>> THEN Returned(<<>>)
    ELSE LET n == int(replace(Head(lines), QUOTE))
             rest == ParseLinesLenient(Tail(lines))
         IN IF n.raised /= "" THEN rest ELSE Returned(<<n.value>> \o rest.value)

find_running_jobs_lenient(listing) ==
    IF listing.raised /= "" THEN Returned(<<>>)
    ELSE ParseLinesLenient(split(listing.value, NEWLINE))

\* find_running_jobs, given the outcome of check_output(QUEUE_LIST_COMMAND)
find_running_jobs(listing) ==
    IF listing.raised /= "" THEN listing ELSE ParseLines(split(listing.value, NEWLINE))

\* the loop of find_bad_jobs
find_bad_jobs_loop(unfinished, running) ==
    SelectSeq(unfinished, LAMBDA job : ~(job.id_job \in running))

\* faulty variant: the statement with time_end = time_start
FixStatementNoDuration(job) ==
    [type |-> "sql", table |-> CLUSTER_NAME, set_state |-> FIXED_STATE,
     set_time_end_plus |-> 0, where_id_job |-> job.id_job]

\* the statement fix_bad_jobs prints for one job
FixStatement(job) ==
    [type |-> "sql", table |-> CLUSTER_NAME, set_state |-> FIXED_STATE,
     set_time_end_plus |-> FIXED_DURATION, where_id_job |-> job.id_job]

\* the line find_bad prints for one job
JobLine(job) == [type |-> "job", job |-> job]

\* what the database does when it executes one printed statement
ExecuteStatement(db, stmt) ==
    [i \in DOMAIN db |->
        IF db[i].id_job = stmt.where_id_job
        THEN [db[i] EXCEPT !.state = stmt.set_state,
                           !.time_end = db[i].time_start + stmt.set_time_end_plus]
        ELSE db[i]]

RECURSIVE ExecuteAll(_, _)
ExecuteAll(db, stmts) ==
    IF stmts = <<>> THEN db ELSE ExecuteAll(ExecuteStatement(db, Head(stmts)), Tail(stmts))

----------------------------------------------------------------------------
\* The orphan detector

SKIP_USERS ==
    {<<"r", "o", "o", "t">>,
     <<"p", "o", "s", "t", "f", "i", "x">>,
     <<"n", "t", "p">>,
     <<"r", "p", "c">>,
     <<"r", "p", "c", "u", "s", "e", "r">>,
     <<"d", "b", "u", "s">>,
     <<"m", "u", "n", "g", "e">>,
     <<"g", "a", "n", "g", "l", "i", "a">>,
     <<"n", "s", "c", "d">>,
     <<"6", "8">>}

\* faulty variant: a composite string whose brackets do not match is rejected: no token
name_string_to_list_strict(composite_names_str) ==
    LET depth(i) == Cardinality({k \in 1..i : composite_names_str[k] = OPEN})
                    - Cardinality({k \in 1..i : composite_names_str[k] = CLOSE})
    IN IF /\ \A i \in 0..Len(composite_names_str) : depth(i) \in {0, 1}
          /\ depth(Len(composite_names_str)) = 0
       THEN SelectSeq(split(composite_names_str, COMMA), LAMBDA piece : piece /= <<>>)
       ELSE <<>>

\* faulty variant: the pattern without the bracket alternative: every comma splits
name_string_to_list_every_comma(composite_names_str) ==
    SelectSeq(split(composite_names_str, COMMA), LAMBDA piece : piece /= <<>>)

\* the pattern (?:[^,\[]|\[[^\]]*\])+ of name_string_to_list.
\* GroupEnd: where the "]" of \[[^\]]*\] is when the "[" is at p (0 if there is none)
GroupEnd(t, p) ==
    IF \E b \in (p + 1)..Len(t) : t[b] = CLOSE
    THEN CHOOSE b \in (p + 1)..Len(t) :
            t[b] = CLOSE /\ \A k \in (p + 1)..(b - 1) : t[k] /= CLOSE
    ELSE 0

\* one repetition of the group at p: the position after it, or p when neither
\* alternative matches
ItemEnd(t, p) ==
    IF p > Len(t) THEN p
    ELSE IF t[p] \notin {COMMA, OPEN} THEN p + 1
    ELSE IF t[p] = OPEN /\ GroupEnd(t, p) /= 0 THEN GroupEnd(t, p) + 1
    ELSE p

\* the greedy "+": the position after the longest match that starts at p
RECURSIVE MatchEnd(_, _)
MatchEnd(t, p) == IF ItemEnd(t, p) = p THEN p ELSE MatchEnd(t, ItemEnd(t, p))

\* splitter.findall from position p on
RECURSIVE findall(_, _)
findall(t, p) ==
    IF p > Len(t) THEN <<>>
    ELSE IF MatchEnd(t, p) > p
         THEN <<SubSeq(t, p, MatchEnd(t, p) - 1)>> \o findall(t, MatchEnd(t, p))
         ELSE findall(t, p + 1)

name_string_to_list(composite_names_str) == findall(composite_names_str, 1)

\* the lists scontrol show hostname may print for a compressed name, or its failure
NodeN1 == <<"n", "1">>
NodeN2 == <<"n", "2">>

ExpandOutputs ==
    {Raised(CalledProcessError),
     Returned(NodeN1 \o <<NEWLINE>>),
     Returned(NodeN2 \o <<NEWLINE>>),
     Returned(NodeN1 \o <<NEWLINE>> \o NodeN2 \o <<NEWLINE>>)}

\* what sinfo may print when find_orphans runs
SinfoRange ==
    <<"n", OPEN, "1", "-", "2", CLOSE, NEWLINE>>

SinfoList ==
    <<"n", "1", COMMA, "n", "2", NEWLINE>>

SinfoRangeAndName ==
    <<"n", OPEN, "1", COMMA, "2", CLOSE, COMMA, "g", "7", NEWLINE>>

SinfoNoClose ==
    <<"n", OPEN, "1", NEWLINE>>

SinfoNoOpen ==
    <<"n", "1", CLOSE, COMMA, "n", "2", NEWLINE>>

SinfoTexts == {SinfoRange, SinfoList, SinfoRangeAndName, SinfoNoClose, SinfoNoOpen}

\* every text of at most MaxLen characters over a name character, the comma and the
\* brackets, and the node lists of a real cluster
Alphabet == {"a", COMMA, OPEN, CLOSE}

AllTexts == UNION {[1..n -> Alphabet] : n \in 0..MaxLen}

ExampleRanges ==
    <<"n", "o", "d", "e", OPEN, "0", "1", "-", "0", "3", COMMA, "0", "5", CLOSE,
      COMMA, "g", "p", "u", "0", "7">>

ExampleList ==
    <<"a", COMMA, "b", COMMA, "c">>

ExampleTexts == {ExampleRanges, ExampleList}

\* squeue -o "%u|%N": a header line, then one line per (user, node) pair
UserAlice == <<"a", "l", "i", "c", "e">>
UserBob == <<"b", "o", "b">>

LivePairs ==
    {[user |-> UserAlice, node |-> NodeN1], [user |-> UserAlice, node |-> NodeN2],
     [user |-> UserBob, node |-> NodeN1]}

PairsHeader == <<"U", "S", "E", "R", PIPE, "N", "O", "D", "E", "L", "I", "S", "T">>

RECURSIVE PairLines(_)
PairLines(P) ==
    IF P = {} THEN <<>>
    ELSE LET pr == CHOOSE x \in P : TRUE
         IN pr.user \o <<PIPE>> \o pr.node \o <<NEWLINE>> \o PairLines(P \ {pr})

PairOutputs(P) ==
    {Raised(CalledProcessError), Returned(PairsHeader \o <<NEWLINE>> \o PairLines(P))}

\* get_running_user_node_names, given the outcome of check_output(squeue_cmd)
get_running_user_node_names(listing) ==
    IF listing.raised /= "" THEN listing
    ELSE Returned(split(strip(listing.value), NEWLINE))

\* what ssh <node> ps -e --no-headers -o "%U|%p|%a" may print, or its failure
PsRootAlice ==
    <<"r", "o", "o", "t", PIPE, "1", PIPE, "i", "n", "i", "t", NEWLINE, "a", "l",
      "i", "c", "e", PIPE, "7", PIPE, "s", "h", NEWLINE>>

PsPaddedAliceBob ==
    <<"a", "l", "i", "c", "e", SPACE, SPACE, SPACE, PIPE, SPACE, SPACE, SPACE, SPACE,
      "7", PIPE, "s", "h", SPACE, "-", "c", SPACE, "x", NEWLINE, "b", "o", "b",
      PIPE, "8", PIPE, "a", PIPE, "b", NEWLINE>>

PsOnlySkipped ==
    <<"6", "8", PIPE, "3", PIPE, "n", "t", "p", "d", NEWLINE>>

PsShortLine ==
    <<"a", "l", "i", "c", "e", PIPE, "7", PIPE, "s", "h", NEWLINE, "p", "s", NEWLINE>>

PsBob ==
    <<"b", "o", "b", PIPE, "8", PIPE, "s", "h", NEWLINE>>

PsTexts == {PsRootAlice, PsPaddedAliceBob, PsOnlySkipped, PsShortLine, PsBob, <<>>}

PsOutputs == {Raised(CalledProcessError)} \cup {Returned(t) : t \in PsTexts}

\* faulty variant: get_node_processes without the SKIP_USERS test
RECURSIVE ParseProcessesAll(_)
ParseProcessesAll(lines) ==
    IF lines = <<>> THEN Returned(<<>>)
    ELSE LET parts == split(strip(Head(lines)), PIPE)
             rest == ParseProcessesAll(Tail(lines))
         IN IF Len(parts) < 3 THEN Raised(IndexError)
            ELSE IF rest.raised /= "" THEN rest
            ELSE Returned(<<[user |-> strip(parts[1]), pid |-> strip(parts[2]),
                             cmd |-> strip(parts[3])]>> \o rest.value)

get_node_processes_all_users(listing) ==
    IF listing.raised /= "" THEN listing
    ELSE ParseProcessesAll(split(strip(listing.value), NEWLINE))

\* the loop of get_node_processes over the lines of the listing
RECURSIVE ParseProcesses(_)
ParseProcesses(lines) ==
    IF lines = <<>> THEN Returned(<<>>)
    ELSE LET parts == split(strip(Head(lines)), PIPE)
             rest == ParseProcesses(Tail(lines))
         IN IF Len(parts) < 3 THEN Raised(IndexError)
            ELSE IF rest.raised /= "" THEN rest
            ELSE LET user == strip(parts[1])
                     pid == strip(parts[2])
                     cmdline == strip(parts[3])
                 IN IF user \notin SKIP_USERS
                    THEN Returned(<<[user |-> user, pid |-> pid, cmd |-> cmdline]>>
                                  \o rest.value)
                    ELSE rest

\* get_node_processes, given the outcome of check_output(ps_command)
get_node_processes(listing) ==
    IF listing.raised /= "" THEN listing
    ELSE ParseProcesses(split(strip(listing.value), NEWLINE))

\* "{}|{}".format(user, node_name)
user_node_name(user, node_name) == user \o <<PIPE>> \o node_name

\* the lines find_orphans prints for one node
OrphanLinesOf(node_name, processes, running) ==
    LET lines == [k \in DOMAIN processes |->
                    [type |-> "orphan", node |-> node_name, user |-> processes[k].user,
                     pid |-> processes[k].pid, cmd |-> processes[k].cmd]]
    IN SelectSeq(lines, LAMBDA l : ~(user_node_name(l.user, node_name) \in running))

OrphanVarsIdle ==
    /\ live_pairs = {}
    /\ composite_names = <<>>
    /\ tokens = <<>>
    /\ next_token = 1
    /\ node_names = <<>>
    /\ pairs_text = Returned(<<>>)
    /\ running_user_node_names = {}
    /\ next_node = 1
    /\ visits = <<>>
    /\ err = <<>>

JobVarsIdle ==
    /\ store = <<>>
    /\ live = {}
    /\ squeue_text = Returned(<<>>)
    /\ running_jobs = {}
    /\ bad_jobs = <<>>
    /\ next_job = 1
    /\ store_before = <<>>
    /\ plan_store = <<>>

----------------------------------------------------------------------------
\* One run of find_bad / fix_bad

Init ==
    /\ store \in Stores
    /\ live \in SUBSET JobIds
    /\ cmd \in {"find_bad", "fix_bad"}
    /\ pc = "main"
    /\ squeue_text = Returned(<<>>)
    /\ running_jobs = {}
    /\ bad_jobs = <<>>
    /\ next_job = 1
    /\ out = <<>>
    /\ store_before = store
    /\ plan_store = <<>>
    /\ OrphanVarsIdle

\* main() -> find_bad(): connect, print the header, call find_bad_jobs
\* main() -> fix_bad(): connect, call fix_bad_jobs, which calls find_bad_jobs
Main ==
    /\ pc = "main"
    /\ out' = IF cmd = "find_bad" THEN out \o <<[type |-> "header"]>> ELSE out
    /\ pc' = "find_running_jobs"
    /\ UNCHANGED <<store, live, cmd, squeue_text, running_jobs, bad_jobs, next_job,
                   store_before, plan_store, orphanVars>>

\* find_bad_jobs: running_jobs = set(find_running_jobs())
FindRunningJobs ==
    /\ pc = "find_running_jobs"
    /\ \E text \in QueueOutputs(live) :
         /\ squeue_text' = text
         /\ LET ids == find_running_jobs(text)
            IN IF ids.raised /= ""
               THEN /\ pc' = "error"
                    /\ UNCHANGED running_jobs
               ELSE /\ pc' = "find_unfinished_jobs"
                    /\ running_jobs' = Range(ids.value)
    /\ UNCHANGED <<store, live, cmd, bad_jobs, next_job, out, store_before, plan_store, orphanVars>>

\* find_bad_jobs: the query and the loop over its rows
FindBadJobs ==
    /\ pc = "find_unfinished_jobs"
    /\ \E unfinished \in find_unfinished_jobs(store) :
         bad_jobs' = find_bad_jobs_loop(unfinished, running_jobs)
    /\ next_job' = 1
    /\ pc' = IF cmd = "find_bad" THEN "print_jobs" ELSE "print_fixing"
    /\ UNCHANGED <<store, live, cmd, squeue_text, running_jobs, out, store_before,
                   plan_store, orphanVars>>

\* find_bad: one print_bad_job_line per bad job
PrintBadJob ==
    /\ pc = "print_jobs"
    /\ next_job <= Len(bad_jobs)
    /\ out' = Append(out, JobLine(bad_jobs[next_job]))
    /\ next_job' = next_job + 1
    /\ UNCHANGED <<store, live, cmd, pc, squeue_text, running_jobs, bad_jobs,
                   store_before, plan_store, orphanVars>>

\* fix_bad_jobs: print("Fixing", len(bad_jobs), "jobs.")
PrintFixing ==
    /\ pc = "print_fixing"
    /\ out' = Append(out, [type |-> "fixing", count |-> Len(bad_jobs)])
    /\ pc' = "print_sql"
    /\ UNCHANGED <<store, live, cmd, squeue_text, running_jobs, bad_jobs, next_job,
                   store_before, plan_store, orphanVars>>

\* faulty variant: the statement is executed on the cursor as well as printed
PrintFixSqlExecutes ==
    /\ pc = "print_sql"
    /\ next_job <= Len(bad_jobs)
    /\ out' = Append(out, FixStatement(bad_jobs[next_job]))
    /\ store' = ExecuteStatement(store, FixStatement(bad_jobs[next_job]))
    /\ next_job' = next_job + 1
    /\ UNCHANGED <<live, cmd, pc, squeue_text, running_jobs, bad_jobs,
                   store_before, plan_store, orphanVars>>

\* faulty variant: every statement is built from the last bad job
PrintFixSqlLastJob ==
    /\ pc = "print_sql"
    /\ next_job <= Len(bad_jobs)
    /\ out' = Append(out, FixStatement(bad_jobs[Len(bad_jobs)]))
    /\ next_job' = next_job + 1
    /\ UNCHANGED <<store, live, cmd, pc, squeue_text, running_jobs, bad_jobs,
                   store_before, plan_store, orphanVars>>

\* fix_bad_jobs: one printed update statement per bad job; nothing is executed
PrintFixSql ==
    /\ pc = "print_sql"
    /\ next_job <= Len(bad_jobs)
    /\ out' = Append(out, FixStatement(bad_jobs[next_job]))
    /\ next_job' = next_job + 1
    /\ UNCHANGED <<store, live, cmd, pc, squeue_text, running_jobs, bad_jobs,
                   store_before, plan_store, orphanVars>>

\* the loop over bad_jobs ends and the command returns
Finish ==
    /\ pc \in {"print_jobs", "print_sql"}
    /\ next_job > Len(bad_jobs)
    /\ pc' = "done"
    /\ UNCHANGED <<store, live, cmd, squeue_text, running_jobs, bad_jobs, next_job, out,
                   store_before, plan_store, orphanVars>>

\* the printed statements of a fix_bad run
Statements(o) == SelectSeq(o, LAMBDA l : l.type = "sql")

\* the job lines of a find_bad run
JobLines(o) == SelectSeq(o, LAMBDA l : l.type = "job")

\* The operator feeds the statements fix_bad printed to the database.
ExecutePlan ==
    /\ pc = "done"
    /\ cmd = "fix_bad"
    /\ plan_store = <<>>
    /\ plan_store' = <<[before |-> store, rerun |-> FALSE]>>
    /\ store' = ExecuteAll(store, Statements(out))
    /\ UNCHANGED <<live, cmd, pc, squeue_text, running_jobs, bad_jobs, next_job, out,
                   store_before, orphanVars>>

\* The operator runs the program again after the statements were executed.
RunAgain ==
    /\ pc \in {"done", "error"}
    /\ plan_store /= <<>>
    /\ plan_store' = <<[plan_store[1] EXCEPT !.rerun = TRUE]>>
    /\ cmd' \in {"find_bad", "fix_bad"}
    /\ pc' = "main"
    /\ squeue_text' = Returned(<<>>)
    /\ running_jobs' = {}
    /\ bad_jobs' = <<>>
    /\ next_job' = 1
    /\ out' = <<>>
    /\ store_before' = store
    /\ UNCHANGED <<store, live, orphanVars>>

Program ==
    \/ Main
    \/ FindRunningJobs
    \/ FindBadJobs
    \/ PrintBadJob
    \/ PrintFixing
    \/ PrintFixSql
    \/ Finish

Next ==
    \/ Program
    \/ ExecutePlan
    \/ RunAgain

Spec == Init /\ [][Next]_vars

----------------------------------------------------------------------------
\* The scheduler at work while the program runs

\* the scheduler accepts a job: a row that is not finished, and a live id
Submit ==
    /\ Len(store) < MaxRows
    /\ \E id \in JobIds \ live, t \in StartTimes :
         /\ store' = Append(store, [id_job |-> id, state |-> UNFINISHED_STATE_LIMIT - 1,
                                    time_start |-> t, time_end |-> 0])
         /\ live' = live \cup {id}
    /\ UNCHANGED <<cmd, pc, squeue_text, running_jobs, bad_jobs, next_job, out,
                   store_before, plan_store, orphanVars>>

\* a job ends: its id leaves the queue and the scheduler finishes its rows
Complete ==
    /\ \E id \in live :
         /\ live' = live \ {id}
         /\ store' = [i \in DOMAIN store |->
                        IF store[i].id_job = id /\ IsUnfinished(store[i])
                        THEN [store[i] EXCEPT !.state = UNFINISHED_STATE_LIMIT,
                                              !.time_end = EndTime]
                        ELSE store[i]]
    /\ UNCHANGED <<cmd, pc, squeue_text, running_jobs, bad_jobs, next_job, out,
                   store_before, plan_store, orphanVars>>

NextRace ==
    \/ Program
    \/ Submit
    \/ Complete

SpecRace == Init /\ [][NextRace]_vars

----------------------------------------------------------------------------
\* One run of get_node_names / find_orphans

\* get_node_names: the node list command (its outcome one of sinfo_outputs), strip,
\* name_string_to_list
GetNodeNamesFrom(sinfo_outputs) ==
    /\ pc = "get_node_names"
    /\ \E sinfo_out \in sinfo_outputs :
         IF sinfo_out.raised /= ""
         THEN /\ pc' = "error"
              /\ UNCHANGED <<composite_names, tokens>>
         ELSE /\ composite_names' = strip(sinfo_out.value)
              /\ tokens' = name_string_to_list(strip(sinfo_out.value))
              /\ pc' = "expand"
    /\ next_token' = 1
    /\ node_names' = <<>>
    /\ UNCHANGED <<cmd, out, jobVars, live_pairs, pairs_text,
                   running_user_node_names, next_node, visits, err>>

\* get_node_names: one pass of the loop, the expansion of one compressed name
ExpandName ==
    /\ pc = "expand"
    /\ next_token <= Len(tokens)
    /\ \E expanded \in ExpandOutputs :
         IF expanded.raised /= ""
         THEN /\ pc' = "error"
              /\ UNCHANGED <<node_names, next_token>>
         ELSE /\ Len(node_names) + Len(split(strip(expanded.value), NEWLINE)) <= MaxNodes
              /\ node_names' = node_names \o split(strip(expanded.value), NEWLINE)
              /\ next_token' = next_token + 1
              /\ UNCHANGED pc
    /\ UNCHANGED <<cmd, out, jobVars, live_pairs, composite_names, tokens,
                   pairs_text, running_user_node_names, next_node, visits, err>>

\* get_node_names returns to a caller that only wanted the node names
ReturnNodeNames ==
    /\ pc = "expand"
    /\ cmd = "get_node_names"
    /\ next_token > Len(tokens)
    /\ pc' = "done"
    /\ UNCHANGED <<cmd, out, jobVars, orphanVars>>

\* find_orphans: get_node_names returns (its locals are gone),
\* running_user_node_names = set(get_running_user_node_names()), then the header line
GetRunningUserNodeNames ==
    /\ pc = "expand"
    /\ cmd = "find_orphans"
    /\ next_token > Len(tokens)
    /\ \E listing \in PairOutputs(live_pairs) :
         /\ pairs_text' = listing
         /\ LET lines == get_running_user_node_names(listing)
            IN IF lines.raised /= ""
               THEN /\ pc' = "error"
                    /\ UNCHANGED <<running_user_node_names, out>>
               ELSE /\ running_user_node_names' = Range(lines.value)
                    /\ out' = Append(out, [type |-> "header"])
                    /\ pc' = "scan"
    /\ next_node' = 1
    /\ composite_names' = <<>>
    /\ tokens' = <<>>
    /\ next_token' = 1
    /\ UNCHANGED <<cmd, jobVars, live_pairs, node_names, visits, err>>

\* faulty variant: no try/except around the node: the first failure ends find_orphans
CheckNodeNoExcept ==
    /\ pc = "scan"
    /\ next_node <= Len(node_names)
    /\ \E listing \in PsOutputs :
         LET node_name == node_names[next_node]
             processes == get_node_processes(listing)
         IN /\ visits' = Append(visits, [node |-> node_name, listing |-> listing])
            /\ IF processes.raised /= ""
               THEN /\ pc' = "done"
                    /\ UNCHANGED out
               ELSE /\ out' = out \o OrphanLinesOf(node_name, processes.value,
                                                   running_user_node_names)
                    /\ UNCHANGED pc
    /\ next_node' = next_node + 1
    /\ UNCHANGED <<cmd, err, jobVars, live_pairs, composite_names, tokens,
                   next_token, node_names, pairs_text, running_user_node_names>>

\* find_orphans: one pass of the loop over node_names, the try block and its except
CheckNode ==
    /\ pc = "scan"
    /\ next_node <= Len(node_names)
    /\ \E listing \in PsOutputs :
         LET node_name == node_names[next_node]
             processes == get_node_processes(listing)
         IN /\ visits' = Append(visits, [node |-> node_name, listing |-> listing])
            /\ IF processes.raised /= ""
               THEN /\ err' = Append(err, node_name)
                    /\ UNCHANGED out
               ELSE /\ out' = out \o OrphanLinesOf(node_name, processes.value,
                                                   running_user_node_names)
                    /\ UNCHANGED err
    /\ next_node' = next_node + 1
    /\ UNCHANGED <<cmd, pc, jobVars, live_pairs, composite_names, tokens,
                   next_token, node_names, pairs_text, running_user_node_names>>

\* find_orphans: the loop over node_names ends
FinishOrphans ==
    /\ pc = "scan"
    /\ next_node > Len(node_names)
    /\ pc' = "done"
    /\ UNCHANGED <<cmd, out, jobVars, orphanVars>>

\* the scheduler starts or ends a job of a user on a node while find_orphans runs
PairsChange ==
    /\ cmd = "find_orphans"
    /\ pc \in {"expand", "scan"}
    /\ \E pr \in LivePairs :
         live_pairs' = IF pr \in live_pairs THEN live_pairs \ {pr} ELSE live_pairs \cup {pr}
    /\ UNCHANGED <<cmd, pc, out, jobVars, composite_names, tokens, next_token,
                   node_names, pairs_text, running_user_node_names, next_node, visits, err>>

InitCommon ==
    /\ pc = "get_node_names"
    /\ out = <<>>
    /\ JobVarsIdle
    /\ composite_names = <<>>
    /\ tokens = <<>>
    /\ next_token = 1
    /\ node_names = <<>>
    /\ pairs_text = Returned(<<>>)
    /\ running_user_node_names = {}
    /\ next_node = 1
    /\ visits = <<>>
    /\ err = <<>>

InitOrphans ==
    /\ cmd = "find_orphans"
    /\ live_pairs \in SUBSET LivePairs
    /\ InitCommon

\* find_orphans calls get_node_names on a cluster
GetNodeNames ==
    GetNodeNamesFrom({Raised(CalledProcessError)} \cup {Returned(t) : t \in SinfoTexts})

NextOrphans ==
    \/ GetNodeNames
    \/ ExpandName
    \/ GetRunningUserNodeNames
    \/ CheckNode
    \/ FinishOrphans
    \/ PairsChange

SpecOrphans == InitOrphans /\ [][NextOrphans]_vars

\* get_node_names alone, on every composite name string
InitNodeNames ==
    /\ cmd = "get_node_names"
    /\ live_pairs = {}
    /\ InitCommon

\* get_node_names is called with any text for the output of the node list command
GetNodeNamesOfAnyText ==
    GetNodeNamesFrom({Raised(CalledProcessError)}
                     \cup {Returned(t \o <<NEWLINE>>) : t \in AllTexts \cup ExampleTexts})

NextNodeNames ==
    \/ GetNodeNamesOfAnyText
    \/ ExpandName
    \/ ReturnNodeNames

SpecNodeNames == InitNodeNames /\ [][NextNodeNames]_vars

----------------------------------------------------------------------------
\* Properties of the job reconciler

Count(s, v) == Cardinality({i \in DOMAIN s : s[i] = v})

AfterFindBadJobs == pc \in {"print_jobs", "print_fixing", "print_sql", "done"}

\* C1: find_bad_jobs returns exactly the rows of the store with state < 3 or
\* time_end = 0 whose id_job the scheduler does not list, each as often as the store
\* holds it, in ascending time_start order; a row with state >= 3 and time_end /= 0
\* is never returned, and nothing is returned when every unfinished id is live.
C1_FindBadJobsIsTheDifference ==
    AfterFindBadJobs =>
        /\ \A r \in Range(store_before) \cup Range(bad_jobs) :
              Count(bad_jobs, r) =
                 IF (r.state < 3 \/ r.time_end = 0) /\ r.id_job \notin live
                 THEN Count(store_before, r) ELSE 0
        /\ \A i, j \in DOMAIN bad_jobs :
              i < j => bad_jobs[i].time_start <= bad_jobs[j].time_start
        /\ \A i \in DOMAIN bad_jobs :
              ~(bad_jobs[i].state >= 3 /\ bad_jobs[i].time_end /= 0)
        /\ (\A i \in DOMAIN store_before :
               (store_before[i].state < 3 \/ store_before[i].time_end = 0)
                  => store_before[i].id_job \in live)
           => bad_jobs = <<>>

\* a run that returned one job and left out an unfinished live one and a finished one
C1_Witness ==
    /\ pc = "done"
    /\ Len(bad_jobs) = 1
    /\ \E i, j \in DOMAIN store_before :
          /\ store_before[i] = bad_jobs[1]
          /\ store_before[j].id_job \in live \/ store_before[j].time_end /= 0
          /\ store_before[j].state >= 3 \/ store_before[j].id_job \in live
          /\ i /= j

\* C3: fix_bad_jobs prints one statement per bad job, in the order of the bad jobs,
\* each with "where id_job =" that job's id, state 5 and time_end = time_start + 1;
\* executed on the job's row it gives time_end = that row's time_start + 1 and it
\* leaves a row of another id alone; with no bad job it prints no statement.
C3_OneStatementPerBadJob ==
    (cmd = "fix_bad" /\ pc = "done") =>
        /\ Len(Statements(out)) = Len(bad_jobs)
        /\ Len(out) = Len(bad_jobs) + 1
        /\ \A i \in DOMAIN bad_jobs :
              LET stmt == Statements(out)[i]
                  job == bad_jobs[i]
              IN /\ stmt.where_id_job = job.id_job
                 /\ stmt.set_state = 5
                 /\ stmt.set_time_end_plus = 1
                 /\ ExecuteStatement(<<job>>, stmt)[1].time_end = job.time_start + 1
                 /\ ExecuteStatement(<<job>>, stmt)[1].state = 5
                 /\ \A r \in Rows :
                       r.id_job /= job.id_job => ExecuteStatement(<<r>>, stmt) = <<r>>

\* fix_bad printed statements for two bad jobs with different ids
C3_Witness ==
    /\ cmd = "fix_bad"
    /\ pc = "done"
    /\ Len(Statements(out)) = 2
    /\ bad_jobs[1].id_job /= bad_jobs[2].id_job

\* C4: no step of a running find_bad or fix_bad changes the store
C4_StoreIsOnlyRead == [][pc \notin {"done", "error"} => store' = store]_vars

\* fix_bad has printed a statement for a row that is still unfinished in the store
C4_Witness ==
    /\ cmd = "fix_bad"
    /\ pc = "done"
    /\ plan_store = <<>>
    /\ Statements(out) /= <<>>
    /\ \E i \in DOMAIN store :
          /\ store[i].id_job = Statements(out)[1].where_id_job
          /\ store[i].time_end = 0

\* the lines of a text: the pieces from the start or from just behind a line break
\* up to the next line break or the end
LineAt(text, a) ==
    SubSeq(text, a, CHOOSE b \in (a - 1)..Len(text) :
                       /\ \A k \in a..b : text[k] /= NEWLINE
                       /\ b = Len(text) \/ text[b + 1] = NEWLINE)

TextLines(text) ==
    {LineAt(text, a) : a \in {k \in 1..(Len(text) + 1) : k = 1 \/ text[k - 1] = NEWLINE}}

\* a line that, its quote characters dropped, is not a run of decimal digits
IsNoJobId(line) ==
    LET bare == SelectSeq(line, LAMBDA c : c /= QUOTE)
    IN bare = <<>> \/ \E k \in DOMAIN bare : bare[k] \notin Range(Digits)

ListingIsUnusable ==
    \/ squeue_text.raised = CalledProcessError
    \/ \E line \in TextLines(squeue_text.value) : line /= <<>> /\ IsNoJobId(line)

\* C7: when the queue listing fails or has a non-empty line that is no integer,
\* find_bad_jobs returns nothing: no job is reported and no statement is printed
C7_UnusableListingIsFatal ==
    (pc \notin {"main", "find_running_jobs"} /\ ListingIsUnusable) =>
        /\ pc = "error"
        /\ running_jobs = {}
        /\ bad_jobs = <<>>
        /\ JobLines(out) = <<>>
        /\ Statements(out) = <<>>

\* the listing had a job id line and a line that is no job id, and a stale row exists
C7_Witness ==
    /\ pc = "error"
    /\ squeue_text.raised = ""
    /\ \E line \in TextLines(squeue_text.value) : ~IsNoJobId(line)
    /\ \E i \in DOMAIN store : store[i].time_end = 0 /\ store[i].id_job \notin live

UniqueIds(db) == \A i, j \in DOMAIN db : db[i].id_job = db[j].id_job => i = j

\* C10: for a store with unique id_job and time_start >= 0, executing the printed
\* statements leaves no fixed row unfinished and every other row as it was, and a
\* later find_bad_jobs against the same live set returns nothing
C10_PlanConverges ==
    (plan_store /= <<>>
       /\ UniqueIds(plan_store[1].before)
       /\ \A i \in DOMAIN plan_store[1].before : plan_store[1].before[i].time_start >= 0) =>
        LET before == plan_store[1].before
            WasBad(r) == (r.state < 3 \/ r.time_end = 0) /\ r.id_job \notin live
        IN /\ DOMAIN store = DOMAIN before
           /\ \A i \in DOMAIN before :
                 IF WasBad(before[i])
                 THEN /\ store[i].state = 5
                      /\ store[i].time_end = before[i].time_start + 1
                      /\ ~(store[i].state < 3 \/ store[i].time_end = 0)
                      /\ store[i].id_job = before[i].id_job
                      /\ store[i].time_start = before[i].time_start
                 ELSE store[i] = before[i]
           /\ plan_store[1].rerun =>
                 /\ bad_jobs = <<>>
                 /\ JobLines(out) = <<>>
                 /\ Statements(out) = <<>>

\* a plan that fixed one row and left another alone was executed, and the next run
\* of fix_bad found nothing
C10_Witness ==
    /\ plan_store /= <<>>
    /\ UniqueIds(plan_store[1].before)
    /\ plan_store[1].rerun
    /\ cmd = "fix_bad"
    /\ pc = "done"
    /\ out = <<[type |-> "fixing", count |-> 0]>>
    /\ \E i, j \in DOMAIN store :
          /\ store[i] /= plan_store[1].before[i]
          /\ plan_store[1].before[i].time_start = 0
          /\ store[j] = plan_store[1].before[j]
          /\ store[j].time_end = 0


\* C9: every job find_bad prints, and every job fix_bad prints a statement for, is
\* at that moment not in the scheduler's queue and has an unfinished row in the store
C9_ReportedJobsAreFinished ==
    [][(Len(out') > Len(out) /\ out'[Len(out')].type \in {"job", "sql"}) =>
          LET line == out'[Len(out')]
              id == IF line.type = "job" THEN line.job.id_job ELSE line.where_id_job
          IN /\ id \notin live
             /\ \E i \in DOMAIN store :
                   store[i].id_job = id /\ (store[i].state < 3 \/ store[i].time_end = 0)]_vars

----------------------------------------------------------------------------
\* Properties of name_string_to_list and get_node_names

RECURSIVE SortedSeq(_)
SortedSeq(S) ==
    IF S = {} THEN <<>>
    ELSE LET m == CHOOSE x \in S : \A y \in S : x <= y
         IN <<m>> \o SortedSeq(S \ {m})

\* brackets open before position i + 1 and not closed again
Depth(t, i) ==
    Cardinality({k \in 1..i : t[k] = OPEN}) - Cardinality({k \in 1..i : t[k] = CLOSE})

\* names, commas and matching bracket pairs that are not nested
WellFormed(t) ==
    /\ \A i \in 0..Len(t) : Depth(t, i) \in {0, 1}
    /\ Depth(t, Len(t)) = 0

\* the pieces between the commas that lie outside every bracket pair
Segments(t) ==
    LET cuts == SortedSeq({0, Len(t) + 1}
                          \cup {i \in 1..Len(t) : t[i] = COMMA /\ Depth(t, i) = 0})
    IN [k \in 1..(Len(cuts) - 1) |-> SubSeq(t, cuts[k] + 1, cuts[k + 1] - 1)]

RECURSIVE JoinWithCommas(_)
JoinWithCommas(ss) ==
    IF ss = <<>> THEN <<>>
    ELSE IF Len(ss) = 1 THEN ss[1]
    ELSE ss[1] \o <<COMMA>> \o JoinWithCommas(Tail(ss))

\* check_output(NODE_LIST_COMMAND) returned and name_string_to_list was applied
Parsed == pc /= "get_node_names" /\ ~(pc = "error" /\ next_token > Len(tokens))

\* C6: for a well formed composite string name_string_to_list returns, in order, the
\* non-empty pieces between the commas outside brackets; node[01-03,05],gpu07 gives
\* two tokens, a,b,c three and the empty string none; joined with commas the tokens
\* give the input back when no piece is empty.
C6_SplitsAtCommasOutsideBrackets ==
    (Parsed /\ WellFormed(composite_names)) =>
        /\ tokens = SelectSeq(Segments(composite_names), LAMBDA piece : piece /= <<>>)
        /\ (\A k \in DOMAIN Segments(composite_names) : Segments(composite_names)[k] /= <<>>)
              => JoinWithCommas(tokens) = composite_names
        /\ composite_names = ExampleRanges =>
              tokens = <<<<"n", "o", "d", "e", OPEN, "0", "1", "-", "0", "3", COMMA, "0", "5", CLOSE>>,
                         <<"g", "p", "u", "0", "7">>>>
        /\ composite_names = ExampleList => tokens = <<<<"a">>, <<"b">>, <<"c">>>>
        /\ composite_names = <<>> => tokens = <<>>

\* the string with a comma inside brackets was split into its two names
C6_Witness ==
    /\ Parsed
    /\ composite_names = ExampleRanges
    /\ Len(tokens) = 2
    /\ \E k \in DOMAIN tokens[1] : tokens[1][k] = COMMA

\* C8 as claimed: a composite string with an unmatched bracket makes
\* name_string_to_list / get_node_names fail: no token and no node name comes of it
C8_MalformedSpecIsFatal ==
    (Parsed /\ ~WellFormed(composite_names)) =>
        /\ pc = "error"
        /\ tokens = <<>>
        /\ node_names = <<>>

\* position i lies in a "[" ... "]" the pattern takes as one group
Covered(t, i) ==
    \E a \in 1..i :
       /\ t[a] = OPEN
       /\ \A k \in a..(i - 1) : t[k] /= CLOSE
       /\ \E b \in i..Len(t) : b > a /\ t[b] = CLOSE

\* position i belongs to a token
Kept(t, i) == Covered(t, i) \/ t[i] \notin {COMMA, OPEN}

\* the maximal runs of kept positions
Runs(t) ==
    LET starts == SortedSeq({i \in 1..Len(t) : Kept(t, i) /\ (i = 1 \/ ~Kept(t, i - 1))})
        EndOf(a) == CHOOSE b \in a..Len(t) :
                       /\ \A k \in a..b : Kept(t, k)
                       /\ b = Len(t) \/ ~Kept(t, b + 1)
    IN [k \in 1..Len(starts) |-> SubSeq(t, starts[k], EndOf(starts[k]))]

\* C8 as the code has it: name_string_to_list does not fail on a composite string
\* with an unmatched bracket. It returns the runs of characters between the commas
\* outside bracket groups and the "[" that no later "]" closes (such a "[" is dropped,
\* a "]" outside a group is kept as a name character), get_node_names expands
\* these tokens, and it fails only when a command fails.
C8_MalformedSpecIsSplitAnyway ==
    (Parsed /\ ~WellFormed(composite_names)) =>
        /\ tokens = Runs(composite_names)
        /\ \A k \in DOMAIN tokens : tokens[k] /= <<>>
        /\ Len(node_names) >= next_token - 1

\* "a[" followed by a name: the "[" is dropped, both names are expanded and returned
C8_Witness ==
    /\ Parsed
    /\ ~WellFormed(composite_names)
    /\ \E k \in DOMAIN composite_names :
          composite_names[k] = OPEN /\ ~Covered(composite_names, k)
    /\ Len(tokens) = 2
    /\ pc = "done"
    /\ Len(node_names) = 2

----------------------------------------------------------------------------
\* Properties of find_orphans

OrphanLines(o) == SelectSeq(o, LAMBDA l : l.type = "orphan")

\* the text is one of the lines of the listing squeue printed for the live pairs
IsLivePair(text) == text \in TextLines(pairs_text.value)

\* get_node_processes raises for a node: the command failed, or a line of its output
\* has fewer than three fields (the except clause of find_orphans takes both alike)
ListingFailed(listing) ==
    \/ listing.raised /= ""
    \/ \E line \in TextLines(strip(listing.value)) :
          Cardinality({k \in DOMAIN line : line[k] = PIPE}) < 2

\* the processes of a listing that was read: the first three fields of every line,
\* user, pid and command
ProcessesOf(listing) ==
    {[user |-> strip(split(line, PIPE)[1]),
      pid |-> strip(split(line, PIPE)[2]),
      cmd |-> strip(split(line, PIPE)[3])] : line \in TextLines(strip(listing.value))}

\* C2: find_orphans reports a process of a node it could list exactly when its user
\* is not in SKIP_USERS and user|node is not a line of the one listing of live pairs
\* taken before the scan; no reported process has a user in SKIP_USERS.
C2_OrphansAreTheDifference ==
    (cmd = "find_orphans" /\ pc \in {"scan", "done"}) =>
        /\ {[node |-> l.node, user |-> l.user, pid |-> l.pid, cmd |-> l.cmd] :
               l \in Range(OrphanLines(out))}
           = UNION {{[node |-> visits[i].node, user |-> pr.user, pid |-> pr.pid,
                      cmd |-> pr.cmd] :
                        pr \in {q \in ProcessesOf(visits[i].listing) :
                                  /\ q.user \notin SKIP_USERS
                                  /\ ~IsLivePair(q.user \o <<PIPE>> \o visits[i].node)}} :
                    i \in {v \in DOMAIN visits : ~ListingFailed(visits[v].listing)}}
        /\ \A l \in Range(OrphanLines(out)) : l.user \notin SKIP_USERS

\* both nodes run root's init and alice's sh; alice had a job on n1 only when the pairs
\* were listed and has one on n2 by now: the one orphan is alice's sh on n2
C2_Witness ==
    /\ cmd = "find_orphans"
    /\ pc = "done"
    /\ visits = <<[node |-> NodeN1, listing |-> Returned(PsRootAlice)],
                  [node |-> NodeN2, listing |-> Returned(PsRootAlice)]>>
    /\ user_node_name(UserAlice, NodeN1) \in running_user_node_names
    /\ [user |-> UserAlice, node |-> NodeN2] \in live_pairs
    /\ OrphanLines(out) = <<[type |-> "orphan", node |-> NodeN2, user |-> UserAlice,
                             pid |-> <<"7">>, cmd |-> <<"s", "h">>]>>

\* C5: find_orphans checks every node of the node list in order; it prints the
\* orphans of the nodes whose listing succeeded and none of a failed node, writes
\* one message per failed node to stderr and goes on to the end of the list.
C5_FailedNodeIsSkipped ==
    (cmd = "find_orphans" /\ pc \in {"scan", "done"}) =>
        /\ Len(visits) = next_node - 1
        /\ pc = "done" => Len(visits) = Len(node_names)
        /\ \A i \in DOMAIN visits : visits[i].node = node_names[i]
        /\ err = LET failed == SelectSeq(visits, LAMBDA v : ListingFailed(v.listing))
                 IN [k \in DOMAIN failed |-> failed[k].node]
        /\ OrphanLines(out) =
              Concat([i \in DOMAIN visits |->
                        IF ListingFailed(visits[i].listing) THEN <<>>
                        ELSE OrphanLinesOf(visits[i].node,
                                           get_node_processes(visits[i].listing).value,
                                           running_user_node_names)])

\* the first node could not be listed, the second one has an orphan that was printed
C5_Witness ==
    /\ cmd = "find_orphans"
    /\ pc = "done"
    /\ Len(visits) = 2
    /\ visits[1].listing.raised = CalledProcessError
    /\ err = <<visits[1].node>>
    /\ Len(OrphanLines(out)) = 1
    /\ OrphanLines(out)[1].node = visits[2].node
    /\ visits[2].node /= visits[1].node

====
